---- MODULE Spec2Model ----
(***************************************************************************)
(* Rephrase.AI: the chat-history next-word suggestion engine               *)
(* (backend/utils/contextual_suggestions.py) and the history file it reads *)
(* (backend/utils/context_loader.py, ContextLoader.save_message).          *)
(*                                                                         *)
(* A text is a sequence of one-character strings.  A Python value stored   *)
(* in the history file is a record [t, s]: t = "str" with the text s, or   *)
(* t = "int" for a JSON value that is no string.  A character outside      *)
(* ASCII is written by its code point ("U+00E9").                          *)
(*                                                                         *)
(* Spec and FairSpec: suggestion requests and save_message calls, one      *)
(* after the other.  ConcSpec: the handlers at the same time, save_message *)
(* step by step (savers, log).  NormSpec: normalize on its own (nrm).      *)
(***************************************************************************)
EXTENDS Integers, Sequences, FiniteSets, TLC

VARIABLES file, req, nrm, savers, log

vars == <<file, req, nrm, savers, log>>

(***************************************************************************)
(* Bounds of the model.                                                    *)
(***************************************************************************)
\* the history file holds at most this many records
MaxRecords == 2

\* max_words is drawn from 0..MaxWords
MaxWords == 5

\* normalize is applied to every text of at most this many characters
MaxTextLen == 3

(***************************************************************************)
(* CONFIG (contextual_suggestions.py:12)                                   *)
(***************************************************************************)
N == 3

(***************************************************************************)
(* Characters and str.lower()                                              *)
(***************************************************************************)
UpperLetters ==
    <<"A","B","C","D","E","F","G","H","I","J","K","L","M",
      "N","O","P","Q","R","S","T","U","V","W","X","Y","Z">>

LowerLetters ==
    <<"a","b","c","d","e","f","g","h","i","j","k","l","m",
      "n","o","p","q","r","s","t","u","v","w","x","y","z">>

Digits == {"0","1","2","3","4","5","6","7","8","9"}

Whitespace == {" ", "\t", "\n"}

Range(s) == {s[k] : k \in DOMAIN s}

\* LATIN SMALL LETTER E WITH ACUTE: a letter the pattern removes
EAcute == "U+00E9"

\* LATIN CAPITAL LETTER I WITH DOT ABOVE: the one character whose lower()
\* is two characters, "i" and COMBINING DOT ABOVE
DottedI == "U+0130"

CombiningDot == "U+0307"

\* KELVIN SIGN: its lower() is the ASCII letter "k"
KelvinSign == "U+212A"

\* str.lower() on one character whose lower() is one character
lower_char(ch) ==
    IF \E k \in 1..26 : UpperLetters[k] = ch
    THEN LowerLetters[CHOOSE k \in 1..26 : UpperLetters[k] = ch]
    ELSE IF ch = KelvinSign THEN "k"
    ELSE ch

\* a mutant of lower: the text is left as it is
lower_identity(text) == text

\* text.lower()
RECURSIVE lower(_)
lower(text) ==
    IF text = <<>> THEN <<>>
    ELSE (IF Head(text) = DottedI
          THEN <<"i", CombiningDot>>
          ELSE <<lower_char(Head(text))>>) \o lower(Tail(text))

\* the characters the pattern [^a-z0-9\s] does not match
kept_char(ch) == ch \in Range(LowerLetters) \cup Digits \cup Whitespace

\* a mutant of re_sub: count=1, only the first match is removed
RECURSIVE re_sub_once(_)
re_sub_once(text) ==
    IF text = <<>> THEN <<>>
    ELSE IF kept_char(Head(text))
         THEN <<Head(text)>> \o re_sub_once(Tail(text))
         ELSE Tail(text)

\* re.sub(r"[^a-z0-9\s]", "", text)
RECURSIVE re_sub(_)
re_sub(text) ==
    IF text = <<>> THEN <<>>
    ELSE IF kept_char(Head(text))
         THEN <<Head(text)>> \o re_sub(Tail(text))
         ELSE re_sub(Tail(text))

\* text.split(): the maximal runs of non-whitespace characters, in order
RECURSIVE split_from(_, _, _)
split_from(text, word, words) ==
    IF text = <<>>
    THEN IF word = <<>> THEN words ELSE Append(words, word)
    ELSE IF Head(text) \in Whitespace
         THEN split_from(Tail(text), <<>>,
                         IF word = <<>> THEN words ELSE Append(words, word))
         ELSE split_from(Tail(text), Append(word, Head(text)), words)

split(text) == split_from(text, <<>>, <<>>)

\* normalize(text)
normalize(text) == split(re_sub(lower(text)))

\* " ".join(words)
RECURSIVE join(_)
join(words) ==
    IF words = <<>> THEN <<>>
    ELSE IF Len(words) = 1 THEN words[1]
         ELSE words[1] \o <<" ">> \o join(Tail(words))

(***************************************************************************)
(* Python values, JSON items and the history file                          *)
(***************************************************************************)
Str(s) == [t |-> "str", s |-> s]

\* a JSON value that is not a string (a number, null)
NonStr == [t |-> "int", s |-> <<>>]

\* {"message": v, ...}: a record of the history
Record(v) == [t |-> "dict", has_message |-> TRUE, message |-> v]

\* a dict without the key "message"
RecordNoMessage == [t |-> "dict", has_message |-> FALSE, message |-> Str(<<>>)]

\* a list item that is no dict (a string, a number)
ScalarItem == [t |-> "scalar", has_message |-> FALSE, message |-> Str(<<>>)]

Absent == [kind |-> "absent", data |-> <<>>]

\* the file exists and its text is not JSON
Invalid == [kind |-> "invalid", data |-> <<>>]

\* the file exists and has no bytes (open(path, 'w') leaves it so)
Empty == [kind |-> "empty", data |-> <<>>]

History(items) == [kind |-> "list", data |-> items]

(***************************************************************************)
(* LOAD CHAT HISTORY (contextual_suggestions.py:29-42)                     *)
(***************************************************************************)
Ok(v) == [raised |-> FALSE, exc |-> "", value |-> v]

Raise(e) == [raised |-> TRUE, exc |-> e, value |-> <<>>]

\* a mutant of load_items: no test of len(tokens), every message is kept
RECURSIVE load_items_nofilter(_, _)
load_items_nofilter(items, sentences) ==
    IF items = <<>> THEN Ok(sentences)
    ELSE LET item == Head(items) IN
         IF item.t # "dict"
         THEN Raise("AttributeError")
         ELSE LET msg == IF item.has_message THEN item.message ELSE Str(<<>>) IN
              IF msg.t # "str"
              THEN Raise("AttributeError")
              ELSE load_items_nofilter(Tail(items),
                                       Append(sentences, normalize(msg.s)))

\* the loop body of load_sentences for the items left, sentences so far
RECURSIVE load_items(_, _)
load_items(items, sentences) ==
    IF items = <<>> THEN Ok(sentences)
    ELSE LET item == Head(items) IN
         IF item.t # "dict"
         THEN Raise("AttributeError")              \* item.get on a non-dict
         ELSE LET msg == IF item.has_message THEN item.message ELSE Str(<<>>) IN
              IF msg.t # "str"
              THEN Raise("AttributeError")         \* text.lower() on a non-str
              ELSE LET tokens == normalize(msg.s) IN
                   load_items(Tail(items),
                              IF Len(tokens) >= N
                              THEN Append(sentences, tokens)
                              ELSE sentences)

\* a mutant: no path.exists() test, read_text() of a missing file raises
load_sentences_noexists(f) ==
    IF f.kind # "list"
    THEN Raise(IF f.kind = "absent" THEN "FileNotFoundError" ELSE "JSONDecodeError")
    ELSE load_items(f.data, <<>>)

\* load_sentences(path), f the state of the file at path
load_sentences(f) ==
    IF f.kind = "absent" THEN Ok(<<>>)
    ELSE IF f.kind \in {"invalid", "empty"} THEN Raise("JSONDecodeError")
    ELSE load_items(f.data, <<>>)

(***************************************************************************)
(* collections.Counter and defaultdict(Counter)                            *)
(* A Counter is the sequence of its [word, count] entries in insertion     *)
(* order (a dict keeps insertion order); the model is a function from      *)
(* contexts (tuples of N-1 tokens) to Counters.                            *)
(***************************************************************************)
EmptyCounter == <<>>

EmptyModel == <<>>

\* a mutant of counter_inc: counter[w] = 1
counter_inc_assign(counter, w) ==
    IF \E k \in DOMAIN counter : counter[k].word = w
    THEN counter
    ELSE Append(counter, [word |-> w, count |-> 1])

\* counter[w] += 1
counter_inc(counter, w) ==
    IF \E k \in DOMAIN counter : counter[k].word = w
    THEN [k \in DOMAIN counter |->
            IF counter[k].word = w
            THEN [counter[k] EXCEPT !.count = @ + 1]
            ELSE counter[k]]
    ELSE Append(counter, [word |-> w, count |-> 1])

\* prefix in model
contains(model, prefix) == prefix \in DOMAIN model

\* model[prefix] of a defaultdict: a missing key is inserted with Counter()
getitem(model, prefix) ==
    IF prefix \in DOMAIN model
    THEN [value |-> model[prefix], dict |-> model]
    ELSE [value |-> EmptyCounter, dict |-> model @@ (prefix :> EmptyCounter)]

\* model[prefix][next_word] += 1
model_inc(model, prefix, next_word) ==
    LET g == getitem(model, prefix) IN
    [c \in DOMAIN g.dict |->
        IF c = prefix THEN counter_inc(g.value, next_word) ELSE g.dict[c]]

\* a mutant of most_common1: the last entry with the highest count
most_common1_last(counter) ==
    IF counter = <<>> THEN <<>>
    ELSE LET best == CHOOSE k \in DOMAIN counter :
                        /\ \A j \in DOMAIN counter : counter[j].count <= counter[k].count
                        /\ \A j \in DOMAIN counter :
                              counter[j].count = counter[k].count => j <= k
         IN <<counter[best]>>

\* counter.most_common(1): the first entry, in insertion order, with the
\* highest count; the empty list for an empty Counter
most_common1(counter) ==
    IF counter = <<>> THEN <<>>
    ELSE LET best == CHOOSE k \in DOMAIN counter :
                        /\ \A j \in DOMAIN counter : counter[j].count <= counter[k].count
                        /\ \A j \in DOMAIN counter :
                              counter[j].count = counter[k].count => k <= j
         IN <<counter[best]>>

(***************************************************************************)
(* BUILD N-GRAM MODEL (contextual_suggestions.py:49-58)                    *)
(***************************************************************************)
\* the inner loop: windows i..len(tokens)-N of one sentence (i from 0)
RECURSIVE build_windows(_, _, _)
build_windows(model, tokens, i) ==
    IF i >= Len(tokens) - N + 1 THEN model
    ELSE build_windows(
            model_inc(model, SubSeq(tokens, i + 1, i + N - 1), tokens[i + N]),
            tokens, i + 1)

\* the outer loop over the sentences, starting from the dict given
RECURSIVE build_into(_, _)
build_into(model, sentences) ==
    IF sentences = <<>> THEN model
    ELSE build_into(build_windows(model, Head(sentences), 0), Tail(sentences))

\* build_ngram_model(sentences): model = defaultdict(Counter), then the loops
build_ngram_model(sentences) == build_into(EmptyModel, sentences)

(***************************************************************************)
(* The suggestion request.  req holds the position of the call (pc), its   *)
(* arguments and the locals of get_contextual_suggestion and autocomplete. *)
(* result is what the caller gets: a returned text or a raised exception.  *)
(* History variables of req: snapshot (the file as the call read it),      *)
(* lookups (the iterations of the loop the call has started, each of which *)
(* looks the context up in the model), served (a call has returned),       *)
(* changed (a save changed the file since the last call started),          *)
(* after_change (the call started with changed set).                       *)
(***************************************************************************)
NoResult == [status |-> "none", exc |-> "", value |-> <<>>]

Returned(text) == [status |-> "ok", exc |-> "", value |-> text]

Raised(e) == [status |-> "raised", exc |-> e, value |-> <<>>]

FreshReq ==
    [pc |-> "idle", user_input |-> <<>>, max_words |-> 0,
     sentences |-> <<>>, model |-> EmptyModel, tokens |-> <<>>,
     prefix |-> <<>>, suggestion |-> <<>>, i |-> 0, result |-> NoResult,
     snapshot |-> Absent, lookups |-> 0, changed |-> FALSE,
     after_change |-> FALSE, served |-> FALSE]

\* a mutant of autocomplete_enter: no test of len(tokens); tokens[-(N - 1):]
\* of a shorter list is the whole list
autocomplete_enter_nocheck(r) ==
    LET tokens == normalize(r.user_input) IN
    [r EXCEPT !.tokens = tokens,
              !.prefix = IF Len(tokens) < N - 1 THEN tokens
                         ELSE SubSeq(tokens, Len(tokens) - (N - 1) + 1, Len(tokens)),
              !.suggestion = <<>>,
              !.i = 0,
              !.pc = "walk"]

\* a mutant of autocomplete_enter: prefix = tuple(tokens[:N - 1]), the
\* first tokens of the input
autocomplete_enter_first(r) ==
    LET tokens == normalize(r.user_input) IN
    IF Len(tokens) < N - 1
    THEN [r EXCEPT !.tokens = tokens, !.pc = "done", !.result = Returned(<<>>)]
    ELSE [r EXCEPT !.tokens = tokens,
                   !.prefix = SubSeq(tokens, 1, N - 1),
                   !.suggestion = <<>>,
                   !.i = 0,
                   !.pc = "walk"]

\* autocomplete(model, user_input, max_words) up to the loop (lines 65-72)
autocomplete_enter(r) ==
    LET tokens == normalize(r.user_input) IN
    IF Len(tokens) < N - 1
    THEN [r EXCEPT !.tokens = tokens, !.pc = "done", !.result = Returned(<<>>)]
    ELSE [r EXCEPT !.tokens = tokens,
                   !.prefix = SubSeq(tokens, Len(tokens) - (N - 1) + 1, Len(tokens)),
                   !.suggestion = <<>>,
                   !.i = 0,
                   !.pc = "walk"]

\* a mutant of loop_continues: range(max_words + 1)
loop_continues_offbyone(r) == r.i <= r.max_words

\* a mutant of loop_continues: while True
loop_continues_forever(r) == TRUE

\* for _ in range(max_words): is there another iteration (line 74)
loop_continues(r) == r.i < r.max_words

\* return " ".join(suggestion) (line 82)
autocomplete_return(r) ==
    [r EXCEPT !.pc = "done", !.result = Returned(join(r.suggestion))]

\* a mutant of loop_body: `if not model[prefix]: break`, the read of the
\* defaultdict comes before any membership test
loop_body_getitem_first(r) ==
    LET g == getitem(r.model, r.prefix)
        r1 == [r EXCEPT !.model = g.dict, !.lookups = @ + 1]
    IN IF g.value = EmptyCounter
       THEN autocomplete_return(r1)
       ELSE LET next_word == most_common1(g.value)[1].word IN
            [r1 EXCEPT !.suggestion = Append(@, next_word),
                       !.prefix = Tail(@) \o <<next_word>>,
                       !.i = @ + 1]

\* a mutant of loop_body: at a context that is absent `return ""`, the
\* tokens found so far are dropped
loop_body_discard(r) ==
    IF ~contains(r.model, r.prefix)
    THEN [r EXCEPT !.lookups = @ + 1, !.pc = "done", !.result = Returned(<<>>)]
    ELSE LET g == getitem(r.model, r.prefix)
             mc == most_common1(g.value)
             r1 == [r EXCEPT !.model = g.dict, !.lookups = @ + 1]
         IN IF mc = <<>>
            THEN [r1 EXCEPT !.pc = "done", !.result = Raised("IndexError")]
            ELSE LET next_word == mc[1].word IN
                 [r1 EXCEPT !.suggestion = Append(@, next_word),
                            !.prefix = Tail(@) \o <<next_word>>,
                            !.i = @ + 1]

\* a mutant of loop_body: the context is not moved on to the token taken
loop_body_noslide(r) ==
    IF ~contains(r.model, r.prefix)
    THEN autocomplete_return([r EXCEPT !.lookups = @ + 1])
    ELSE LET g == getitem(r.model, r.prefix)
             mc == most_common1(g.value)
             r1 == [r EXCEPT !.model = g.dict, !.lookups = @ + 1]
         IN IF mc = <<>>
            THEN [r1 EXCEPT !.pc = "done", !.result = Raised("IndexError")]
            ELSE LET next_word == mc[1].word IN
                 [r1 EXCEPT !.suggestion = Append(@, next_word),
                            !.i = @ + 1]

\* one iteration of the loop (lines 75-80)
loop_body(r) ==
    IF ~contains(r.model, r.prefix)
    THEN autocomplete_return([r EXCEPT !.lookups = @ + 1])         \* break
    ELSE LET g == getitem(r.model, r.prefix)
             mc == most_common1(g.value)
             r1 == [r EXCEPT !.model = g.dict, !.lookups = @ + 1]
         IN IF mc = <<>>
            THEN [r1 EXCEPT !.pc = "done", !.result = Raised("IndexError")]
            ELSE LET next_word == mc[1].word IN
                 [r1 EXCEPT !.suggestion = Append(@, next_word),
                            !.prefix = Tail(@) \o <<next_word>>,
                            !.i = @ + 1]

\* the loop of autocomplete, one step: an iteration, or the end of the range
autocomplete_step(r) ==
    IF loop_continues(r) THEN loop_body(r) ELSE autocomplete_return(r)

\* the entry of get_contextual_suggestion: the arguments are bound
call_entry(r, f, user_input, max_words) ==
    [r EXCEPT !.user_input = user_input, !.max_words = max_words,
              !.result = NoResult, !.snapshot = f, !.lookups = 0,
              !.after_change = r.changed, !.changed = FALSE,
              !.served = r.served]

\* a mutant: the model of the earlier call is kept and counted into again
get_contextual_suggestion_cached(r, f, user_input, max_words) ==
    LET loaded == load_sentences(f)
        r0 == call_entry(r, f, user_input, max_words)
    IN IF loaded.raised
       THEN [r0 EXCEPT !.pc = "done", !.result = Raised(loaded.exc)]
       ELSE LET r1 == [r0 EXCEPT !.sentences = loaded.value] IN
            IF r1.sentences = <<>>
            THEN [r1 EXCEPT !.pc = "done", !.result = Returned(<<>>)]
            ELSE autocomplete_enter(
                    [r1 EXCEPT !.model = build_into(r.model, r1.sentences)])

\* get_contextual_suggestion(chat_history_path, user_input, max_words)
\* (lines 89-103) up to the loop of autocomplete, from the locals r, with f
\* the file at chat_history_path
get_contextual_suggestion(r, f, user_input, max_words) ==
    LET loaded == load_sentences(f)
        r0 == call_entry(r, f, user_input, max_words)
    IN IF loaded.raised
       THEN [r0 EXCEPT !.pc = "done", !.result = Raised(loaded.exc)]
       ELSE LET r1 == [r0 EXCEPT !.sentences = loaded.value] IN
            IF r1.sentences = <<>>
            THEN [r1 EXCEPT !.pc = "done", !.result = Returned(<<>>)]
            ELSE autocomplete_enter(
                    [r1 EXCEPT !.model = build_ngram_model(r1.sentences)])

(***************************************************************************)
(* ContextLoader.save_message (context_loader.py:149-178)                  *)
(***************************************************************************)
\* the file after save_message(sender, message): a missing file starts the
\* history, a file that is no JSON makes json.load raise and is left alone
save_message(f, message) ==
    IF f.kind = "absent" THEN History(<<Record(message)>>)
    ELSE IF f.kind \in {"invalid", "empty"} THEN f
    ELSE History(Append(f.data, Record(message)))

(***************************************************************************)
(* The inputs of the model                                                 *)
(***************************************************************************)
T_abc == <<"A", " ", " ", "b", ",", " ", "c", "!">>

T_abd == <<"a", " ", "b", " ", "d">>

T_abcabc == <<"a", " ", "b", " ", "c", " ", "a", " ", "b", " ", "c">>

T_ok == <<"o", "k">>

W_I == <<"I">>

W_will == <<"w", "i", "l", "l">>

W_review == <<"r", "e", "v", "i", "e", "w">>

W_the == <<"t", "h", "e">>

W_document == <<"d", "o", "c", "u", "m", "e", "n", "t">>

W_today == <<"t", "o", "d", "a", "y">>

W_send == <<"s", "e", "n", "d">>

\* "I will review the document today"
T_scenario1 == join(<<W_I, W_will, W_review, W_the, W_document, W_today>>)

\* "I will send the review today"
T_scenario2 == join(<<W_I, W_will, W_send, W_the, W_review, W_today>>)

\* "I will"
T_Iwill == join(<<W_I, W_will>>)

ScenarioFile == History(<<Record(Str(T_scenario1)), Record(Str(T_scenario2))>>)

\* the values of data['message'] a save request carries
Messages == {Str(T_abc), Str(T_abd), Str(T_abcabc), Str(T_ok), NonStr}

\* the drafts a suggestion is asked for
UserInputs ==
    { <<>>,
      <<"b">>,
      <<"A", " ", "b">>,
      <<"x", " ", "a", " ", "B", ".">>,
      <<"b", " ", "c">>,
      T_Iwill }

\* max_words is a number of words
MaxWordsValues == 0..MaxWords

\* the history file as the program finds it when it starts
InitialFiles ==
    { Absent, Invalid, History(<<>>), ScenarioFile,
      History(<<RecordNoMessage>>), History(<<ScalarItem>>) }

(***************************************************************************)
(* The state machine                                                       *)
(***************************************************************************)
\* normalize is not being applied on its own
NrmIdle ==
    [pc |-> "idle", text |-> <<>>, tokens |-> <<>>, again |-> <<>>,
     other |-> <<>>, other_tokens |-> <<>>]

\* the handlers of /api/save_message that may run at the same time (the
\* server of app.run handles each request in a thread of its own)
Savers == {"s1", "s2"}

\* a handler that is not in save_message
SaverIdle == [pc |-> "idle", message |-> NonStr, history |-> <<>>, before |-> Absent]

\* History variables of the save calls: base (the file at the start),
\* started (the calls begun), acked (the messages of the calls that
\* returned True, in the order their writes completed), overlapping (the
\* suggestion request read the file while a save call was between its
\* read and the end of its write) and around (the file before and after
\* each such save call)
LogInit(f) ==
    [base |-> f, started |-> 0, acked |-> <<>>,
     overlapping |-> FALSE, around |-> {}]

\* no save call is followed step by step
NoLog == LogInit(Absent)

Init ==
    /\ file \in InitialFiles
    /\ req = FreshReq
    /\ nrm = NrmIdle
    /\ savers = [s \in Savers |-> SaverIdle]
    /\ log = NoLog

\* a request calls get_contextual_suggestion(path, user_input, max_words)
Request(user_input, max_words) ==
    /\ req.pc = "idle"
    /\ req' = get_contextual_suggestion(req, file, user_input, max_words)
    /\ UNCHANGED <<file, nrm, savers, log>>

\* autocomplete runs one step of its loop
AutocompleteStep ==
    /\ req.pc = "walk"
    /\ req' = autocomplete_step(req)
    /\ UNCHANGED <<file, nrm, savers, log>>

\* the call is over: the caller has the result and the frames of the call
\* are dropped.  The corpus of the call (sentences, model) is left in req,
\* so that a later call that used it instead of the file would show.
Return ==
    /\ req.pc = "done"
    /\ req' = [FreshReq EXCEPT !.sentences = req.sentences,
                               !.model = req.model,
                               !.served = TRUE,
                               !.changed = req.changed]
    /\ UNCHANGED <<file, nrm, savers, log>>

\* POST /api/save_message: context_loader.save_message(sender, message)
SaveMessage(message) ==
    /\ Len(file.data) < MaxRecords
    /\ file' = save_message(file, message)
    /\ req' = [req EXCEPT !.changed =
                  \/ @
                  \/ (file' # file /\ (req.pc # "idle" \/ req.served))]
    /\ UNCHANGED <<nrm, savers, log>>

Next ==
    \/ \E u \in UserInputs, mw \in MaxWordsValues : Request(u, mw)
    \/ AutocompleteStep
    \/ Return
    \/ \E m \in Messages : SaveMessage(m)

Spec == Init /\ [][Next]_vars

\* the loop of autocomplete is not suspended for ever: the call is one
\* synchronous computation
FairSpec == Spec /\ WF_vars(AutocompleteStep)

(***************************************************************************)
(* The handlers running at the same time.  save_message is three steps:    *)
(* the read of the history (context_loader.py:156-168), open(path, 'w'),   *)
(* which empties the file (line 171), and json.dump with the close of the  *)
(* file (line 172), which writes the text in one piece (the histories are  *)
(* smaller than the buffer of the file object).                            *)
(***************************************************************************)
\* lines 156-168: the history read and the new message appended; a file
\* that is no JSON makes json.load raise, which is no FileNotFoundError
save_read(f, message) ==
    IF f.kind = "absent" THEN Ok(<<Record(message)>>)
    ELSE IF f.kind \in {"invalid", "empty"} THEN Raise("JSONDecodeError")
    ELSE Ok(Append(f.data, Record(message)))

\* the file after json.dump(history, f) and the close of f, f opened with
\* 'w' some time ago and the file being now in the state cur.  The text is
\* written from offset 0 over what is there: over text another handler has
\* written since, the file ends with the rest of that text when it is the
\* longer one (the lengths depend on the senders and timestamps, which the
\* model leaves open)
dump_outcomes(cur, history) ==
    IF cur.kind = "empty" THEN {History(history)}
    ELSE {History(history), Invalid}

\* "No chat history available for suggestions."
NoHistoryText ==
    <<"N", "o", " ", "c", "h", "a", "t", " ", "h", "i", "s", "t", "o", "r",
      "y", " ", "a", "v", "a", "i", "l", "a", "b", "l", "e", " ", "f", "o",
      "r", " ", "s", "u", "g", "g", "e", "s", "t", "i", "o", "n", "s", ".">>

\* "Error generating suggestions."
ErrorText ==
    <<"E", "r", "r", "o", "r", " ", "g", "e", "n", "e", "r", "a", "t", "i",
      "n", "g", " ", "s", "u", "g", "g", "e", "s", "t", "i", "o", "n", "s",
      ".">>

\* ContextLoader.load_contextual_suggestions(user_input), r the call of
\* get_contextual_suggestion at its end (for a missing file no call is made)
load_contextual_suggestions(r) ==
    IF r.snapshot.kind = "absent" THEN NoHistoryText
    ELSE IF r.result.status = "raised" THEN ErrorText
    ELSE r.result.value

ConcInit ==
    /\ file \in InitialFiles
    /\ req = FreshReq
    /\ nrm = NrmIdle
    /\ savers = [s \in Savers |-> SaverIdle]
    /\ log = LogInit(file)

\* the save calls between their read and the end of their write
InSave == {s \in Savers : savers[s].pc # "idle"}

\* a handler enters save_message(sender, message) and reads the history
SaveRead(s, message) ==
    /\ savers[s].pc = "idle"
    /\ Len(log.base.data) + log.started < MaxRecords
    /\ LET rd == save_read(file, message) IN
       savers' = IF rd.raised
                 THEN savers                               \* return False
                 ELSE [savers EXCEPT ![s] =
                          [pc |-> "open_w", message |-> message,
                           history |-> rd.value, before |-> file]]
    /\ log' = [log EXCEPT !.started = @ + 1]
    /\ UNCHANGED <<file, req, nrm>>

\* open(history_file, 'w')
SaveOpenW(s) ==
    /\ savers[s].pc = "open_w"
    /\ file' = Empty
    /\ savers' = [savers EXCEPT ![s].pc = "dump"]
    /\ UNCHANGED <<req, nrm, log>>

\* json.dump(history, f, indent=2), the file is closed, return True
SaveDump(s) ==
    /\ savers[s].pc = "dump"
    /\ file' \in dump_outcomes(file, savers[s].history)
    /\ savers' = [savers EXCEPT ![s] = SaverIdle]
    /\ log' = [log EXCEPT !.acked = Append(@, savers[s].message)]
    /\ UNCHANGED <<req, nrm>>

\* a suggestion request while save calls may be under way
ConcRequest(user_input, max_words) ==
    /\ req.pc = "idle"
    /\ req' = get_contextual_suggestion(req, file, user_input, max_words)
    /\ log' = [log EXCEPT
                  !.overlapping = InSave # {},
                  !.around = UNION {{savers[s].before, History(savers[s].history)} :
                                      s \in InSave}]
    /\ UNCHANGED <<file, nrm, savers>>

ConcNext ==
    \/ \E u \in UserInputs, mw \in MaxWordsValues : ConcRequest(u, mw)
    \/ AutocompleteStep
    \/ Return
    \/ \E s \in Savers, m \in Messages : SaveRead(s, m)
    \/ \E s \in Savers : SaveOpenW(s)
    \/ \E s \in Savers : SaveDump(s)

ConcSpec == ConcInit /\ [][ConcNext]_vars

(***************************************************************************)
(* normalize on its own (contextual_suggestions.py:19-22): it is applied   *)
(* to a text, then to the tokens joined again, or to a second text.        *)
(***************************************************************************)
\* the characters of the texts: a small and a capital letter, a digit, two
\* kinds of whitespace, punctuation, and letters outside ASCII
Alphabet == {"a", "B", "7", " ", "\n", "!", EAcute, DottedI, KelvinSign}

\* every text of at most MaxTextLen characters
Texts == UNION {[1..n -> Alphabet] : n \in 0..MaxTextLen}

\* the other case of an ASCII letter; the lower case of a letter outside
\* ASCII (str.swapcase, str.lower)
SwapCase(ch) ==
    IF \E k \in 1..26 : UpperLetters[k] = ch
    THEN <<LowerLetters[CHOOSE k \in 1..26 : UpperLetters[k] = ch]>>
    ELSE IF \E k \in 1..26 : LowerLetters[k] = ch
    THEN <<UpperLetters[CHOOSE k \in 1..26 : LowerLetters[k] = ch]>>
    ELSE lower(<<ch>>)

\* characters that are neither alphanumeric nor whitespace
Punctuation == {"!", ",", ".", CombiningDot}

\* text with the characters ins in front of position k (k = Len + 1: at the end)
InsertAt(text, k, ins) ==
    SubSeq(text, 1, k - 1) \o ins \o SubSeq(text, k, Len(text))

\* text without the character at position k
DeleteAt(text, k) == SubSeq(text, 1, k - 1) \o SubSeq(text, k + 1, Len(text))

\* the texts that differ from text in the case of one letter
CaseVariants(text) ==
    {InsertAt(DeleteAt(text, k), k, SwapCase(text[k])) : k \in DOMAIN text}

\* the texts that differ from text in one character the pattern removes
PunctuationVariants(text) ==
    {InsertAt(text, k, <<p>>) : k \in 1..(Len(text) + 1), p \in Punctuation}
    \cup {DeleteAt(text, k) : k \in {j \in DOMAIN text : text[j] \in Punctuation}}

\* the texts that differ from text in the length of one run of whitespace
WhitespaceVariants(text) ==
    {InsertAt(text, k, <<w>>) :
        k \in {j \in DOMAIN text : text[j] \in Whitespace}, w \in Whitespace}
    \cup {DeleteAt(text, k) :
            k \in {j \in DOMAIN text :
                      /\ text[j] \in Whitespace
                      /\ \/ j > 1 /\ text[j - 1] \in Whitespace
                         \/ j < Len(text) /\ text[j + 1] \in Whitespace}}

Variants(text) ==
    (CaseVariants(text) \cup PunctuationVariants(text)
        \cup WhitespaceVariants(text)) \ {text}

NormInit ==
    /\ file = Absent
    /\ req = FreshReq
    /\ savers = [s \in Savers |-> SaverIdle]
    /\ log = NoLog
    /\ nrm \in {[NrmIdle EXCEPT !.pc = "new", !.text = t] : t \in Texts}

\* tokens = normalize(text)
Normalize ==
    /\ nrm.pc = "new"
    /\ nrm' = [nrm EXCEPT !.pc = "normalized", !.tokens = normalize(nrm.text)]
    /\ UNCHANGED <<file, req, savers, log>>

\* normalize(" ".join(tokens))
Renormalize ==
    /\ nrm.pc = "normalized"
    /\ nrm' = [nrm EXCEPT !.pc = "renormalized",
                          !.again = normalize(join(nrm.tokens))]
    /\ UNCHANGED <<file, req, savers, log>>

\* normalize(other), other a second text
NormalizeOther(other) ==
    /\ nrm.pc = "normalized"
    /\ nrm' = [nrm EXCEPT !.pc = "compared", !.other = other,
                          !.other_tokens = normalize(other)]
    /\ UNCHANGED <<file, req, savers, log>>

NormNext ==
    \/ Normalize
    \/ Renormalize
    \/ \E other \in Variants(nrm.text) : NormalizeOther(other)

NormSpec == NormInit /\ [][NormNext]_vars

(***************************************************************************)
(* Definitions the properties are stated with                              *)
(***************************************************************************)
Done == req.pc = "done"

\* the call of the state, run to its end from the state r
RECURSIVE run_call(_)
run_call(r) == IF r.pc = "walk" THEN run_call(autocomplete_step(r)) ELSE r

\* the first call a process ever makes: nothing is left from any call
FirstCall(f, user_input, max_words) ==
    run_call(get_contextual_suggestion(FreshReq, f, user_input, max_words))

\* the file exists and cannot be parsed: no JSON, or an item that is no
\* dict, or a message that is no text
Unparseable(f) ==
    \/ f.kind \in {"invalid", "empty"}
    \/ /\ f.kind = "list"
       /\ \E k \in DOMAIN f.data :
             \/ f.data[k].t # "dict"
             \/ f.data[k].has_message /\ f.data[k].message.t # "str"

\* the text of a record (item.get("message", ""))
MessageOf(item) == IF item.has_message THEN item.message ELSE Str(<<>>)

\* the file is a list of records none of which makes a sentence
NoSentence(f) ==
    /\ f.kind = "list"
    /\ \A k \in DOMAIN f.data :
          /\ f.data[k].t = "dict"
          /\ MessageOf(f.data[k]).t = "str"
          /\ Len(normalize(MessageOf(f.data[k]).s)) < N

\* the number of space-separated tokens of a text
SpaceTokens(text) ==
    Cardinality({k \in DOMAIN text :
                    text[k] # " " /\ (k = 1 \/ text[k - 1] = " ")})

\* the normalized input has too few tokens for a context
ShortInput == Len(normalize(req.user_input)) < N - 1

\* the input of the call makes a context and the loop may run
FullQuery == Len(normalize(req.user_input)) >= N - 1 /\ req.max_words > 0

(***************************************************************************)
(* C1: when the history file exists and cannot be parsed,                  *)
(* get_contextual_suggestion does not raise and returns the empty string.  *)
(* The code raises (JSONDecodeError, AttributeError).                      *)
(***************************************************************************)
C1_UnparseableGivesEmpty ==
    (Done /\ Unparseable(req.snapshot)) => req.result = Returned(<<>>)

(***************************************************************************)
(* C2: when the history file does not exist, load_sentences yields the     *)
(* empty corpus and get_contextual_suggestion returns the empty string,    *)
(* for every input and max_words, without raising.                         *)
(***************************************************************************)
C2_MissingFileGivesEmpty ==
    (Done /\ req.snapshot.kind = "absent") =>
        /\ req.sentences = <<>>
        /\ req.result = Returned(<<>>)

C2_Witness ==
    /\ Done
    /\ req.snapshot.kind = "absent"
    /\ FullQuery
    /\ req.result = Returned(<<>>)

(***************************************************************************)
(* C3: the returned string holds at most max_words space-separated tokens. *)
(***************************************************************************)
C3_AtMostMaxWords ==
    (Done /\ req.result.status = "ok") =>
        SpaceTokens(req.result.value) <= req.max_words

C3_Witness ==
    /\ Done
    /\ req.result.status = "ok"
    /\ req.max_words >= 2
    /\ SpaceTokens(req.result.value) = req.max_words
    /\ contains(req.model, req.prefix)

\* the windows <<context, next token>> of one sentence, in order
SentenceWindows(tokens) ==
    [k \in 1..(Len(tokens) - N + 1) |->
        <<SubSeq(tokens, k, k + N - 2), tokens[k + N - 1]>>]

\* the windows of the corpus, in corpus order
RECURSIVE CorpusWindows(_)
CorpusWindows(sentences) ==
    IF sentences = <<>> THEN <<>>
    ELSE SentenceWindows(Head(sentences)) \o CorpusWindows(Tail(sentences))

\* how often w follows the context c in the windows ws
Occurrences(ws, c, w) == Cardinality({k \in DOMAIN ws : ws[k] = <<c, w>>})

\* where w follows c for the first time (w does follow c)
FirstSeen(ws, c, w) ==
    CHOOSE k \in DOMAIN ws :
        ws[k] = <<c, w>> /\ \A j \in 1..(k - 1) : ws[j] # <<c, w>>

\* the tokens that follow the context c somewhere in the corpus
Followers(ws, c) == {ws[k][2] : k \in {j \in DOMAIN ws : ws[j][1] = c}}

\* the context the j-th suggested token was chosen for
ContextOf(j) ==
    LET t == req.tokens \o req.suggestion
        n == Len(req.tokens)
    IN <<t[n + j - 2], t[n + j - 1]>>

\* every suggested token has the highest count among the followers of its
\* context and, among those with that count, is the first in corpus order
GreedyChoice ==
    LET ws == CorpusWindows(req.sentences) IN
    \A j \in DOMAIN req.suggestion :
        LET c == ContextOf(j)
            w == req.suggestion[j]
        IN /\ Occurrences(ws, c, w) >= 1
           /\ \A v \in Followers(ws, c) :
                 /\ Occurrences(ws, c, v) <= Occurrences(ws, c, w)
                 /\ Occurrences(ws, c, v) = Occurrences(ws, c, w)
                       => FirstSeen(ws, c, w) <= FirstSeen(ws, c, v)

\* the call of the scenario: the two messages, "I will", max_words = 5
ScenarioCall ==
    /\ Done
    /\ req.snapshot = ScenarioFile
    /\ req.user_input = T_Iwill
    /\ req.max_words = 5

(***************************************************************************)
(* C4: with several next-tokens recorded for the context, autocomplete     *)
(* takes the one with the highest count and, among those with the highest  *)
(* count, the one recorded first in corpus order; the corpus               *)
(* ["I will review the document today", "I will send the review today"]    *)
(* with input "I will" and max_words = 5 gives "review the document        *)
(* today".                                                                 *)
(***************************************************************************)
C4_MostCommonFirstSeen ==
    /\ GreedyChoice
    /\ ScenarioCall =>
          req.result = Returned(join(<<W_review, W_the, W_document, W_today>>))

\* the scenario has run, and its first choice was between two tokens of
\* count 1
C4_Witness ==
    /\ ScenarioCall
    /\ req.result.status = "ok"
    /\ Len(req.suggestion) = 4
    /\ LET ws == CorpusWindows(req.sentences) IN
       /\ Cardinality(Followers(ws, ContextOf(1))) = 2
       /\ \A v \in Followers(ws, ContextOf(1)) : Occurrences(ws, ContextOf(1), v) = 1

(***************************************************************************)
(* C5: an input that normalizes to fewer than N-1 tokens gets the empty    *)
(* string from autocomplete, whatever the corpus and max_words, and the    *)
(* model is not looked up.  (The corpus is one that loads: a history that  *)
(* cannot be parsed never reaches autocomplete, see C1.)                   *)
(***************************************************************************)
C5_ShortInputGivesEmpty ==
    (Done /\ ShortInput /\ ~load_sentences(req.snapshot).raised) =>
        /\ req.result = Returned(<<>>)
        /\ req.lookups = 0

C5_Witness ==
    /\ Done
    /\ ShortInput
    /\ Len(normalize(req.user_input)) = 1
    /\ req.max_words > 0
    /\ ~load_sentences(req.snapshot).raised
    /\ req.model # EmptyModel
    /\ req.model = build_ngram_model(load_sentences(req.snapshot).value)

(***************************************************************************)
(* C6: when the history has no records, or none that normalizes to N       *)
(* tokens or more (a single message "ok"), no sentence is kept and every   *)
(* query returns the empty string.                                         *)
(***************************************************************************)
C6_EmptyCorpusGivesEmpty ==
    (Done /\ NoSentence(req.snapshot)) =>
        /\ req.sentences = <<>>
        /\ req.result = Returned(<<>>)

C6_Witness ==
    /\ Done
    /\ req.snapshot = History(<<Record(Str(T_ok))>>)
    /\ FullQuery
    /\ req.result = Returned(<<>>)

(***************************************************************************)
(* C7: the suggestion is a function of the history, the input and          *)
(* max_words alone: whatever calls came before, a call returns what the    *)
(* first call of a process returns for the same history, input and         *)
(* max_words, so two calls with the same three return the same.            *)
(***************************************************************************)
C7_ResultDependsOnArgumentsOnly ==
    Done => req.result = FirstCall(req.snapshot, req.user_input, req.max_words).result

\* a call after another call that left a model, with a suggestion to give
C7_Witness ==
    /\ Done
    /\ req.served
    /\ req.result.status = "ok"
    /\ Len(req.suggestion) >= 2

(***************************************************************************)
(* C8: autocomplete never changes the model: while the loop runs the model *)
(* keeps its contexts and counts, also when the context looked up is       *)
(* absent, and no lookup raises.                                           *)
(***************************************************************************)
C8_ModelNotMutated ==
    [][req.pc = "walk" => (req'.model = req.model /\ req'.result.status # "raised")]_vars

\* the loop has ended on a context that is absent from the model, after
\* some token was suggested
C8_Witness ==
    /\ Done
    /\ req.result.status = "ok"
    /\ req.suggestion # <<>>
    /\ req.lookups = Len(req.suggestion) + 1
    /\ ~contains(req.model, req.prefix)
    /\ req.model = build_ngram_model(req.sentences)

(***************************************************************************)
(* C9: the walk ends: the loop starts at most max_words iterations, also   *)
(* when a context is reached again, and then autocomplete returns.         *)
(***************************************************************************)
C9_WalkTerminates ==
    /\ [](req.lookups <= req.max_words /\ req.i <= req.max_words)
    /\ (req.pc = "walk") ~> (req.pc = "done")

\* a walk that came back to a context it had left and was ended by the
\* bound
C9_Witness ==
    /\ Done
    /\ req.result.status = "ok"
    /\ req.lookups = req.max_words
    /\ Len(req.suggestion) = req.max_words
    /\ \E j, k \in DOMAIN req.suggestion : j < k /\ ContextOf(j) = ContextOf(k)

(***************************************************************************)
(* C10: every call rebuilds the model from the history file as the call    *)
(* finds it and keeps nothing of earlier calls: the sentences and the      *)
(* model of the call are those of the file read, and after the history has *)
(* changed the call returns what a first call on the new history returns.  *)
(***************************************************************************)
C10_RebuiltFromFileAtCallTime ==
    /\ LET loaded == load_sentences(req.snapshot) IN
       (req.pc \in {"walk", "done"} /\ ~loaded.raised) =>
          /\ req.sentences = loaded.value
          /\ req.sentences # <<>> =>
                req.model = build_into(EmptyModel, req.sentences)
    /\ (Done /\ req.after_change) =>
          req.result = FirstCall(req.snapshot, req.user_input, req.max_words).result

\* a call has returned, save_message has then added a message, and the
\* call after it gives another suggestion than the old history would
C10_Witness ==
    /\ Done
    /\ req.after_change
    /\ req.served
    /\ req.snapshot.kind = "list"
    /\ Len(req.snapshot.data) >= 2
    /\ req.result.status = "ok"
    /\ req.result.value # <<>>
    /\ req.result #
          FirstCall(History(SubSeq(req.snapshot.data, 1, Len(req.snapshot.data) - 1)),
                    req.user_input, req.max_words).result

(***************************************************************************)
(* C11: tokenization is idempotent: for every text s,                      *)
(* normalize(" ".join(normalize(s))) equals normalize(s).                  *)
(***************************************************************************)
C11_NormalizeIdempotent ==
    nrm.pc = "renormalized" => nrm.again = nrm.tokens

\* a text of two tokens that is not its own normal form has been
\* normalized, joined and normalized again
C11_Witness ==
    /\ nrm.pc = "renormalized"
    /\ Len(nrm.tokens) = 2
    /\ nrm.text # join(nrm.tokens)
    /\ nrm.again = nrm.tokens

(***************************************************************************)
(* C12: normalize ignores letter case, punctuation and the amount of       *)
(* whitespace: every token is non-empty and consists only of the           *)
(* characters a-z and 0-9; two texts that differ only in case, in removed  *)
(* characters (neither alphanumeric nor whitespace) or in the length of    *)
(* whitespace runs yield the same tokens; the empty text yields no token.  *)
(***************************************************************************)
C12_NormalizeIgnoresCasePunctuationWhitespace ==
    nrm.pc \in {"normalized", "renormalized", "compared"} =>
        /\ \A k \in DOMAIN nrm.tokens :
              /\ nrm.tokens[k] # <<>>
              /\ Range(nrm.tokens[k]) \subseteq Range(LowerLetters) \cup Digits
        /\ nrm.text = <<>> => nrm.tokens = <<>>
        /\ nrm.pc = "compared" => nrm.other_tokens = nrm.tokens

\* a text of two tokens has been compared with the text that has one more
\* whitespace character between them
C12_Witness ==
    /\ nrm.pc = "compared"
    /\ Len(nrm.tokens) = 2
    /\ nrm.other \in WhitespaceVariants(nrm.text)
    /\ Len(nrm.other) > Len(nrm.text)
    /\ nrm.other_tokens = nrm.tokens

\* the call has built its model: the history loaded and kept a sentence
ModelBuilt ==
    /\ req.pc \in {"walk", "done"}
    /\ req.snapshot.kind = "list"
    /\ ~Unparseable(req.snapshot)
    /\ req.sentences # <<>>

\* model[c][w] as a read that inserts nothing: 0 where nothing is stored
CountOf(model, c, w) ==
    IF c \in DOMAIN model /\ \E k \in DOMAIN model[c] : model[c][k].word = w
    THEN model[c][CHOOSE k \in DOMAIN model[c] : model[c][k].word = w].count
    ELSE 0

\* the pairs <<context, token>> the model stores a count for
StoredPairs(model) ==
    UNION {{<<c, model[c][k].word>> : k \in DOMAIN model[c]} : c \in DOMAIN model}

RECURSIVE SumOfCounter(_)
SumOfCounter(counter) ==
    IF counter = <<>> THEN 0 ELSE Head(counter).count + SumOfCounter(Tail(counter))

\* the sum of the counts stored under the contexts cs
RECURSIVE SumOfCounts(_, _)
SumOfCounts(model, cs) ==
    IF cs = {} THEN 0
    ELSE LET c == CHOOSE x \in cs : TRUE IN
         SumOfCounter(model[c]) + SumOfCounts(model, cs \ {c})

\* the sum of len(s) - N + 1 over the sentences
RECURSIVE WindowTotal(_)
WindowTotal(sentences) ==
    IF sentences = <<>> THEN 0
    ELSE (Len(Head(sentences)) - N + 1) + WindowTotal(Tail(sentences))

(***************************************************************************)
(* C13: build_ngram_model counts every window exactly once: model[c][w] is *)
(* the number of positions, over all retained sentences, where the context *)
(* c is followed by w; the counts sum to the sum of len(s) - N + 1 over    *)
(* the retained sentences; equal token sequences of different messages     *)
(* are counted under one key.                                              *)
(***************************************************************************)
C13_EveryWindowCountedOnce ==
    ModelBuilt =>
        LET ws == CorpusWindows(req.sentences) IN
        /\ \A p \in StoredPairs(req.model) \cup Range(ws) :
              CountOf(req.model, p[1], p[2]) = Occurrences(ws, p[1], p[2])
        /\ \A c \in DOMAIN req.model :
              \A j, k \in DOMAIN req.model[c] :
                 req.model[c][j].word = req.model[c][k].word => j = k
        /\ SumOfCounts(req.model, DOMAIN req.model) = WindowTotal(req.sentences)

\* two messages with the same tokens: their windows are counted twice
\* under one key
C13_Witness ==
    /\ ModelBuilt
    /\ Len(req.sentences) = 2
    /\ req.sentences[1] = req.sentences[2]
    /\ SumOfCounts(req.model, DOMAIN req.model) = 2 * (Len(req.sentences[1]) - N + 1)
    /\ \A p \in StoredPairs(req.model) : CountOf(req.model, p[1], p[2]) >= 2

\* autocomplete has run its loop and returned
Walked ==
    /\ Done
    /\ ModelBuilt
    /\ req.result.status = "ok"
    /\ Len(normalize(req.user_input)) >= N - 1

\* the tokens of the returned suggestion
Suggested == split(req.result.value)

\* the normalized input followed by the suggested tokens
InputThenSuggested == normalize(req.user_input) \o Suggested

\* the last N - 1 tokens of a sequence of at least N - 1 tokens
LastContext(t) == SubSeq(t, Len(t) - (N - 1) + 1, Len(t))

(***************************************************************************)
(* C14: the walk stops only at a context miss or at the max_words bound:   *)
(* when the returned suggestion has k < max_words tokens, the last N-1     *)
(* tokens of the normalized input followed by the k suggested tokens are   *)
(* a context absent from the model, and the k tokens found before the miss *)
(* are what is returned.                                                   *)
(***************************************************************************)
C14_StopsOnlyAtMissOrBound ==
    (Walked /\ Len(Suggested) < req.max_words) =>
        /\ ~contains(req.model, LastContext(InputThenSuggested))
        /\ Suggested = req.suggestion

\* a walk that found tokens and then missed, before the bound
C14_Witness ==
    /\ Walked
    /\ Len(Suggested) >= 1
    /\ Len(Suggested) + 1 < req.max_words
    /\ ~contains(req.model, LastContext(InputThenSuggested))
    /\ contains(req.model, LastContext(normalize(req.user_input)))

(***************************************************************************)
(* C15: every model the program reaches satisfies: each context is a tuple *)
(* of exactly N-1 tokens that occurs, followed by at least one more token, *)
(* in some retained sentence; each context has at least one next-token;    *)
(* every count is an integer >= 1.  So taking the most common next-token   *)
(* of a context that is present never fails.                               *)
(***************************************************************************)
C15_ModelWellFormed ==
    ModelBuilt =>
        LET ws == CorpusWindows(req.sentences) IN
        /\ \A c \in DOMAIN req.model :
              /\ Len(c) = N - 1
              /\ \E k \in DOMAIN ws : ws[k][1] = c
              /\ req.model[c] # EmptyCounter
              /\ \A k \in DOMAIN req.model[c] :
                    req.model[c][k].count \in Nat /\ req.model[c][k].count >= 1
              /\ most_common1(req.model[c]) # <<>>
        /\ req.result.status # "raised"

\* a walk over a model of several contexts has taken tokens and has ended
\* at a context that is absent
C15_Witness ==
    /\ ModelBuilt
    /\ Done
    /\ Cardinality(DOMAIN req.model) >= 3
    /\ req.lookups >= 3
    /\ ~contains(req.model, req.prefix)

\* what autocomplete(model, user_input, max_words) gives
AutocompleteOn(model, user_input, max_words) ==
    run_call(autocomplete_enter(
        [FreshReq EXCEPT !.model = model, !.user_input = user_input,
                         !.max_words = max_words])).result

\* the inputs whose normalized tokens end in the N - 1 tokens the input of
\* the call ends in
SameContextInputs ==
    {u \in UserInputs :
        /\ Len(normalize(u)) >= N - 1
        /\ LastContext(normalize(u)) = LastContext(normalize(req.user_input))}

(***************************************************************************)
(* C16: the suggestion depends on the input only through its last N-1      *)
(* normalized tokens: with the model and max_words fixed, two inputs whose *)
(* normalized tokens end in the same N-1 tokens get the same suggestion.   *)
(***************************************************************************)
C16_OnlyLastContextMatters ==
    Walked =>
        \A u \in SameContextInputs :
            AutocompleteOn(req.model, u, req.max_words) = req.result

\* the call got a suggestion, and a longer input that ends in the same
\* context exists
C16_Witness ==
    /\ Walked
    /\ req.result.value # <<>>
    /\ \E u \in SameContextInputs :
          /\ Len(normalize(u)) > Len(normalize(req.user_input))
          /\ AutocompleteOn(req.model, u, req.max_words) = req.result

\* the N tokens tokens[p..p+N-1] stand in some retained sentence
InCorpus(ngram) ==
    \E k \in DOMAIN req.sentences :
        \E p \in 1..(Len(req.sentences[k]) - N + 1) :
            SubSeq(req.sentences[k], p, p + N - 1) = ngram

(***************************************************************************)
(* C17: every suggested token is an observed continuation: with t the      *)
(* normalized input followed by the suggested tokens, each suggested token *)
(* t[j] has a count >= 1 in the model under the context of the N-1 tokens  *)
(* before it, that is, every N-gram the walk produces stands in some       *)
(* retained sentence.                                                      *)
(***************************************************************************)
C17_SuggestedTokensObserved ==
    Walked =>
        LET t == InputThenSuggested IN
        \A j \in (Len(normalize(req.user_input)) + 1)..Len(t) :
            /\ CountOf(req.model, SubSeq(t, j - (N - 1), j - 1), t[j]) >= 1
            /\ InCorpus(SubSeq(t, j - (N - 1), j))

\* a walk of three tokens or more
C17_Witness ==
    /\ Walked
    /\ Len(Suggested) >= 3
    /\ \A j \in (Len(InputThenSuggested) - 2)..Len(InputThenSuggested) :
          InCorpus(SubSeq(InputThenSuggested, j - (N - 1), j))

\* what the request would get from the file f alone
SuggestionFor(f) ==
    load_contextual_suggestions(FirstCall(f, req.user_input, req.max_words))

(***************************************************************************)
(* C18: a suggestion request that overlaps a save_message call on the      *)
(* same history file does not raise and returns the suggestion for the     *)
(* history before the save or for the history after it (both histories    *)
(* being ones that parse, see C1).  The code reads the file that           *)
(* open(path, 'w') has emptied: json.loads raises, and the caller gets     *)
(* "Error generating suggestions.".                                        *)
(***************************************************************************)
C18_OverlappingRequestSeesBeforeOrAfter ==
    (Done /\ log.overlapping /\ \A f \in log.around : ~Unparseable(f)) =>
        /\ req.result.status # "raised"
        /\ load_contextual_suggestions(req) \in {SuggestionFor(f) : f \in log.around}

\* no save call in the program is under way
Quiescent == InSave = {}

\* the history with the messages of the save calls that returned True
\* added, in the order their writes completed
RECURSIVE WithSaved(_, _)
WithSaved(f, messages) ==
    IF messages = <<>> THEN f
    ELSE WithSaved(save_message(f, Head(messages)), Tail(messages))

(***************************************************************************)
(* C19: no saved message is lost: after any interleaving of save_message   *)
(* calls on the one history file, every message whose call returned True   *)
(* is in the file, together with all messages that were there before, in   *)
(* the order the writes completed.  The code reads, appends and writes     *)
(* back without a lock: of two calls that read the same history the later  *)
(* write drops the message of the earlier one.                             *)
(***************************************************************************)
C19_NoSavedMessageLost ==
    Quiescent => file = WithSaved(log.base, log.acked)

====
